---- MODULE Spec2Model ----
(***************************************************************************)
(* A model of the wordle-bot solver: the feedback-pattern codec            *)
(* (src/src/feedback.rs) and the entropy solver (src/src/solver.rs).       *)
(*                                                                         *)
(* Characters are one-character strings; a text (a Rust &str) is a         *)
(* sequence of characters.  A FeedbackPattern is its u8 value.  An         *)
(* Option<T> is a record [some |-> BOOLEAN, val |-> T].                     *)
(***************************************************************************)
EXTENDS Integers, Sequences, FiniteSets, TLC

VARIABLES
    all_words,        \* WordleSolver.all_words
    possible_answers, \* WordleSolver.possible_answers
    hard_mode,        \* WordleSolver.hard_mode
    constraints,      \* WordleSolver.constraints
    pc,               \* "idle", or "solving" inside solve_with_feedback
    guesses,          \* solve_with_feedback's local list of (guess, pattern) pairs
    run,              \* the running solve: its oracle, its rounds, its oracle calls
    applied,          \* apply_feedback calls since construction or the last reset
    last,             \* the last completed call of the solver and what it returned
    bench,            \* the running benchmark: its kind, the solver it borrows, its tasks' counts
    codec_in,         \* the codec call under test: [op, guess, target, text, value]
    codec_out         \* its result: [done, some, val, overflow]

solver_vars == <<all_words, possible_answers, hard_mode, constraints>>

harness_vars == <<pc, guesses, run, applied, last>>

codec_vars == <<codec_in, codec_out>>

bench_vars == <<bench>>

vars == <<all_words, possible_answers, hard_mode, constraints,
          pc, guesses, run, applied, last, bench, codec_in, codec_out>>

----------------------------------------------------------------------------
(* Bounds of the model *)

\* calculate is exercised on every guess over the first NumLetters letters
\* against every target over the first NumLetters - 1 of them
NumLetters == 3
\* parse is exercised on texts of 0..MaxTextLen characters
MaxTextLen == 6

----------------------------------------------------------------------------
(* src/src/lib.rs, src/src/feedback.rs: constants *)

WORD_LENGTH == 5

ALL_CORRECT == 2 + 2 * 3 + 2 * 9 + 2 * 27 + 2 * 81

NUM_PATTERNS == 243

\* the range of a u8
U8 == 0..255

LowerCase == << "a", "b", "c", "d", "e", "f", "g", "h", "i", "j", "k", "l", "m",
                "n", "o", "p", "q", "r", "s", "t", "u", "v", "w", "x", "y", "z" >>

UpperCase == << "A", "B", "C", "D", "E", "F", "G", "H", "I", "J", "K", "L", "M",
                "N", "O", "P", "Q", "R", "S", "T", "U", "V", "W", "X", "Y", "Z" >>

IndexIn(seq, c) == CHOOSE i \in DOMAIN seq : seq[i] = c

InSeq(seq, c) == \E i \in DOMAIN seq : seq[i] = c

\* char::to_ascii_lowercase: A-Z go to a-z, every other character is kept
to_ascii_lowercase(c) ==
    IF InSeq(UpperCase, c) THEN LowerCase[IndexIn(UpperCase, c)] ELSE c

\* the number of bytes of a character in UTF-8 (str::len counts bytes)
TwoByteChars == { "é" }
ThreeByteChars == { "€" }
len_utf8(c) ==
    IF c \in TwoByteChars THEN 2 ELSE IF c \in ThreeByteChars THEN 3 ELSE 1

RECURSIVE str_len(_)
str_len(s) == IF s = << >> THEN 0 ELSE len_utf8(Head(s)) + str_len(Tail(s))

\* (byte - b'a') as usize, for a lowercase ASCII letter
letter_idx(c) == IndexIn(LowerCase, c) - 1

----------------------------------------------------------------------------
(* Feedback, FeedbackPattern *)

Feedback == { "Correct", "Present", "Absent" }

None == [some |-> FALSE, val |-> 0]
Some(v) == [some |-> TRUE, val |-> v]

\* Feedback::from_char, "None" standing for Option::None
from_char(c) ==
    LET l == to_ascii_lowercase(c) IN
    CASE l \in { "g", "2" } -> "Correct"
      [] l \in { "y", "1" } -> "Present"
      [] l \in { "b", "x", "0" } -> "Absent"
      [] OTHER -> "None"

feedback_value(fb) ==
    CASE fb = "Absent" -> 0
      [] fb = "Present" -> 1
      [] fb = "Correct" -> 2

\* The loop of FeedbackPattern::new from position i on.  pattern and
\* multiplier are u8: they wrap modulo 256, and overflow records that some
\* intermediate result did not fit (a panic in a build with overflow checks).
RECURSIVE new_loop(_, _, _)
new_loop(feedbacks, i, acc) ==
    IF i > Len(feedbacks) THEN acc
    ELSE LET value == feedback_value(feedbacks[i])
             term  == value * acc.multiplier
             sum   == acc.pattern + (term % 256)
             mul   == acc.multiplier * 3
         IN new_loop(feedbacks, i + 1,
                [pattern    |-> sum % 256,
                 multiplier |-> mul % 256,
                 overflow   |-> acc.overflow \/ term > 255 \/ sum > 255 \/ mul > 255])

new_run(feedbacks) ==
    new_loop(feedbacks, 1, [pattern |-> 0, multiplier |-> 1, overflow |-> FALSE])

\* FeedbackPattern::new
new(feedbacks) == new_run(feedbacks).pattern

\* FeedbackPattern::to_feedbacks
RECURSIVE to_feedbacks_loop(_, _)
to_feedbacks_loop(pattern, k) ==
    IF k = 0 THEN << >>
    ELSE << CASE pattern % 3 = 0 -> "Absent"
              [] pattern % 3 = 1 -> "Present"
              [] pattern % 3 = 2 -> "Correct" >>
         \o to_feedbacks_loop(pattern \div 3, k - 1)

\* decoding with the highest position first
to_feedbacks_reversed(pattern) ==
    [i \in 1..WORD_LENGTH |->
        to_feedbacks_loop(pattern, WORD_LENGTH)[WORD_LENGTH + 1 - i]]

to_feedbacks(pattern) == to_feedbacks_loop(pattern, WORD_LENGTH)

\* is_win against a pattern one too large
is_win_off_by_one(pattern) == pattern = ALL_CORRECT + 1

\* FeedbackPattern::is_win
is_win(pattern) == pattern = ALL_CORRECT

\* calculate, first loop (lines 86-93): mark Correct, count the other target letters
RECURSIVE calculate_pass1(_, _, _, _)
calculate_pass1(guess, target, i, st) ==
    IF i > WORD_LENGTH THEN st
    ELSE IF guess[i] = target[i]
         THEN calculate_pass1(guess, target, i + 1,
                  [st EXCEPT !.feedback[i] = "Correct"])
         ELSE LET idx == letter_idx(target[i]) IN
              calculate_pass1(guess, target, i + 1,
                  [st EXCEPT !.target_remaining[idx] = (@ + 1) % 256])

\* calculate, second loop (lines 95-103): credit Present while a letter is left
RECURSIVE calculate_pass2(_, _, _)
calculate_pass2(guess, i, st) ==
    IF i > WORD_LENGTH THEN st
    ELSE IF st.feedback[i] # "Correct"
         THEN LET idx == letter_idx(guess[i]) IN
              IF st.target_remaining[idx] > 0
              THEN calculate_pass2(guess, i + 1,
                       [st EXCEPT !.feedback[i] = "Present",
                                  !.target_remaining[idx] = @ - 1])
              ELSE calculate_pass2(guess, i + 1, st)
         ELSE calculate_pass2(guess, i + 1, st)

\* calculate without the decrement of line 100
calculate_no_decrement(guess, target) ==
    LET st == calculate_pass1(guess, target, 1,
                  [feedback |-> [i \in 1..WORD_LENGTH |-> "Absent"],
                   target_remaining |-> [l \in 0..25 |-> 0]])
    IN [i \in 1..WORD_LENGTH |->
          IF st.feedback[i] = "Correct" THEN "Correct"
          ELSE IF st.target_remaining[letter_idx(guess[i])] > 0 THEN "Present"
          ELSE "Absent"]

\* the feedback array of FeedbackPattern::calculate before it is encoded
calculate_feedback(guess, target) ==
    calculate_pass2(guess, 1,
        calculate_pass1(guess, target, 1,
            [feedback |-> [i \in 1..WORD_LENGTH |-> "Absent"],
             target_remaining |-> [l \in 0..25 |-> 0]])).feedback

\* FeedbackPattern::calculate
calculate(guess, target) == new(calculate_feedback(guess, target))

\* parse without the length check of lines 131-133 and the try_into of line 136
parse_no_length_check(s) ==
    LET feedbacks == [i \in DOMAIN s |-> from_char(s[i])] IN
    IF \E i \in DOMAIN s : feedbacks[i] = "None" THEN None
    ELSE Some(new(feedbacks))

\* FeedbackPattern::parse
parse(s) ==
    IF str_len(s) # WORD_LENGTH THEN None
    ELSE LET feedbacks == [i \in DOMAIN s |-> from_char(s[i])] IN
         IF \E i \in DOMAIN s : feedbacks[i] = "None" THEN None
         ELSE IF Len(feedbacks) # WORD_LENGTH THEN None
         ELSE Some(new(feedbacks))

----------------------------------------------------------------------------
(* The words of the model *)

\* the number of words of the one-letter-apart dictionary
FamilySize == 7

Range(seq) == { seq[k] : k \in DOMAIN seq }

speed == << "s", "p", "e", "e", "d" >>
creep == << "c", "r", "e", "e", "p" >>
arose == << "a", "r", "o", "s", "e" >>
crane == << "c", "r", "a", "n", "e" >>
charm == << "c", "h", "a", "r", "m" >>
geese == << "g", "e", "e", "s", "e" >>
sores == << "s", "o", "r", "e", "s" >>
those == << "t", "h", "o", "s", "e" >>
quick == << "q", "u", "i", "c", "k" >>
dream == << "d", "r", "e", "a", "m" >>

slate == << "s", "l", "a", "t", "e" >>
trace == << "t", "r", "a", "c", "e" >>
crate == << "c", "r", "a", "t", "e" >>
raise == << "r", "a", "i", "s", "e" >>

\* the first five words of get_test_words of tests/solver_tests.rs
TestWords == << crane, slate, trace, crate, raise >>

\* words that differ in their first letter only: bight, eight, fight, ...
IghtLetters == << "b", "e", "f", "l", "m", "n", "r", "s", "t", "w" >>
IghtWords == [k \in 1..FamilySize |-> << IghtLetters[k], "i", "g", "h", "t" >>]

\* words with repeated letters
RepeatWords == << speed, creep, geese, sores >>

Dictionaries == { TestWords, IghtWords, RepeatWords }

\* a word of no dictionary
ForeignWords == { charm }

ModelWords == UNION { Range(d) : d \in Dictionaries } \cup ForeignWords

\* calculate is pure: its patterns on the words of the model, computed once
PatternTable ==
    [guess \in ModelWords |-> [target \in ModelWords |-> calculate(guess, target)]]

\* FeedbackPattern::calculate(guess, target) as the solver calls it
feedback_pattern(guess, target) == PatternTable[guess][target]

----------------------------------------------------------------------------
(* src/src/solver.rs: HardModeConstraints *)

\* Option<char>::None in required_positions
NoLetter == "-"

HardModeConstraints_new ==
    [required_positions |-> [i \in 1..WORD_LENGTH |-> NoLetter],
     required_letters   |-> << >>]

RECURSIVE update_loop(_, _, _, _)
update_loop(c, guess, feedbacks, i) ==
    IF i > Len(feedbacks) THEN c
    ELSE update_loop(
            CASE feedbacks[i] = "Correct" ->
                    [c EXCEPT !.required_positions[i] = guess[i]]
              [] feedbacks[i] = "Present" ->
                    IF InSeq(c.required_letters, guess[i]) THEN c
                    ELSE [c EXCEPT !.required_letters = Append(@, guess[i])]
              [] feedbacks[i] = "Absent" -> c,
            guess, feedbacks, i + 1)

\* an update that fixes the position of a Present letter too
update_fixes_present(c, guess, pattern) ==
    update_loop(c, guess,
                [i \in 1..WORD_LENGTH |->
                    IF to_feedbacks(pattern)[i] = "Absent" THEN "Absent"
                    ELSE "Correct"], 1)

\* an update that keeps only what the last feedback recorded
update_from_nothing(c, guess, pattern) ==
    update_loop(HardModeConstraints_new, guess, to_feedbacks(pattern), 1)

\* HardModeConstraints::update
update(c, guess, pattern) == update_loop(c, guess, to_feedbacks(pattern), 1)

\* HardModeConstraints::is_valid
is_valid(c, word) ==
    /\ \A i \in 1..WORD_LENGTH :
          c.required_positions[i] # NoLetter =>
              (i \in DOMAIN word /\ word[i] = c.required_positions[i])
    /\ \A k \in DOMAIN c.required_letters : InSeq(word, c.required_letters[k])

\* HardModeConstraints::is_empty
is_empty(c) ==
    /\ \A i \in 1..WORD_LENGTH : c.required_positions[i] = NoLetter
    /\ c.required_letters = << >>

----------------------------------------------------------------------------
(* src/src/solver.rs: WordleSolver.  The operations take the solver as a    *)
(* record self and return the new solver or the result.                     *)

\* WordleSolver::new
WordleSolver_new(words) ==
    [all_words        |-> words,
     possible_answers |-> words,
     hard_mode        |-> FALSE,
     constraints      |-> HardModeConstraints_new]

\* WordleSolver::set_hard_mode
set_hard_mode(self, enabled) == [self EXCEPT !.hard_mode = enabled]

\* reset that keeps the constraints
reset_keeps_constraints(self) ==
    [self EXCEPT !.possible_answers = self.all_words]

\* WordleSolver::reset
reset(self) ==
    [self EXCEPT !.possible_answers = self.all_words,
                 !.constraints = HardModeConstraints_new]

\* retain whose closure keeps every word
retain_all(answers, guess, pattern) == answers

\* Vec::retain with the closure of apply_feedback
retain(answers, guess, pattern) ==
    SelectSeq(answers, LAMBDA word : feedback_pattern(guess, word) = pattern)

\* apply_feedback that filters the full word list instead of the candidates
apply_feedback_from_all_words(self, guess, pattern) ==
    [self EXCEPT
        !.constraints = IF self.hard_mode THEN update(@, guess, pattern) ELSE @,
        !.possible_answers = retain(self.all_words, guess, pattern)]

\* WordleSolver::apply_feedback
apply_feedback(self, guess, pattern) ==
    [self EXCEPT
        !.constraints = IF self.hard_mode THEN update(@, guess, pattern) ELSE @,
        !.possible_answers = retain(@, guess, pattern)]

\* valid_guesses without the hard-mode filter
valid_guesses_unfiltered(self) == self.all_words

\* WordleSolver::valid_guesses
valid_guesses(self) ==
    IF self.hard_mode /\ ~is_empty(self.constraints)
    THEN SelectSeq(self.all_words, LAMBDA w : is_valid(self.constraints, w))
    ELSE self.all_words

(***************************************************************************)
(* An f64 entropy is kept exactly, as the record [n, w] that stands for    *)
(* log2(n) - log2(w)/n: over n answers whose pattern buckets have the      *)
(* counts c_1..c_k, -SUM (c_i/n) log2(c_i/n) = log2(n) - log2(w)/n with     *)
(* w = PROD c_i^c_i.  0.0 is [1, 1] and 1.0 is [2, 1].  Entropies are       *)
(* compared as real numbers; the rounding of the f64 sum is not modelled.  *)
(* expected_remaining = n / 2^entropy is the n-th root of w, kept as the   *)
(* same record.                                                            *)
(***************************************************************************)
RECURSIVE Pow(_, _)
Pow(b, k) == IF k = 0 THEN 1 ELSE b * Pow(b, k - 1)

ZeroBits == [n |-> 1, w |-> 1]
OneBit   == [n |-> 2, w |-> 1]
One      == [n |-> 1, w |-> 1]

\* f64::partial_cmp on two entropies (never NaN): x against y
partial_cmp(x, y) ==
    LET l == IF x.n = y.n THEN y.w ELSE Pow(x.n, x.n * y.n) * Pow(y.w, x.n)
        r == IF x.n = y.n THEN x.w ELSE Pow(y.n, x.n * y.n) * Pow(x.w, y.n)
    IN IF l < r THEN "Less" ELSE IF l > r THEN "Greater" ELSE "Equal"

\* bool::cmp, false < true
bool_cmp(x, y) ==
    IF x = y THEN "Equal" ELSE IF y THEN "Less" ELSE "Greater"

\* the pattern of each answer, in the loop of lines 153-156
answer_patterns(answers, guess) ==
    [k \in DOMAIN answers |-> feedback_pattern(guess, answers[k])]

\* pattern_counts[p] after that loop
pattern_count(pats, p) == Cardinality({ k \in DOMAIN pats : pats[k] = p })

\* The loop of lines 159-164.  It adds -(c/n) log2(c/n) for every bucket
\* with c > 0; a bucket of c answers is met here once for each of its c
\* answers, which gives the product of c^c over the buckets.
RECURSIVE entropy_loop(_, _)
entropy_loop(pats, k) ==
    IF k = 0 THEN 1
    ELSE pattern_count(pats, pats[k]) * entropy_loop(pats, k - 1)

\* WordleSolver::calculate_entropy_for_word
calculate_entropy_for_word(self, guess) ==
    LET n == Len(self.possible_answers) IN
    IF n <= 1 THEN ZeroBits
    ELSE [n |-> n,
          w |-> entropy_loop(answer_patterns(self.possible_answers, guess), n)]

\* the closure of lines 199-211
analyse(self, word) ==
    LET entropy == calculate_entropy_for_word(self, word) IN
    [word               |-> word,
     entropy            |-> entropy,
     expected_remaining |-> [n |-> Len(self.possible_answers), w |-> entropy.w],
     is_possible_answer |-> InSeq(self.possible_answers, word)]

\* the comparator of lines 214-220 with the tie-break reversed
compare_tie_reversed(a, b) ==
    LET ord == partial_cmp(b.entropy, a.entropy) IN
    IF ord = "Equal" THEN bool_cmp(a.is_possible_answer, b.is_possible_answer)
    ELSE ord

\* the comparator of lines 214-220
compare(a, b) ==
    LET ord == partial_cmp(b.entropy, a.entropy) IN
    IF ord = "Equal" THEN bool_cmp(b.is_possible_answer, a.is_possible_answer)
    ELSE ord

\* slice::sort_by, a stable sort: each element goes behind the elements it
\* is not Less than
RECURSIVE insert_sorted(_, _)
insert_sorted(sorted, x) ==
    IF sorted = << >> THEN << x >>
    ELSE IF compare(x, Head(sorted)) = "Less" THEN << x >> \o sorted
    ELSE << Head(sorted) >> \o insert_sorted(Tail(sorted), x)

RECURSIVE sort_by(_, _)
sort_by(v, k) ==
    IF k = 0 THEN << >> ELSE insert_sorted(sort_by(v, k - 1), v[k])

\* Vec::truncate
truncate(v, n) == IF n < Len(v) THEN SubSeq(v, 1, n) ELSE v

\* find_best_guesses whose early return is taken with one answer left too
find_best_guesses_empty_at_one(self, n) ==
    IF Len(self.possible_answers) <= 1 THEN << >>
    ELSE IF Len(self.possible_answers) = 2
    THEN << [word               |-> self.possible_answers[1],
             entropy            |-> OneBit,
             expected_remaining |-> One,
             is_possible_answer |-> TRUE] >>
    ELSE truncate(sort_by([k \in DOMAIN valid_guesses(self) |->
                              analyse(self, valid_guesses(self)[k])],
                          Len(valid_guesses(self))), n)

\* find_best_guesses whose two-candidate return reports no information
find_best_guesses_two_as_one(self, n) ==
    IF self.possible_answers = << >> THEN << >>
    ELSE IF Len(self.possible_answers) <= 2
    THEN << [word               |-> self.possible_answers[1],
             entropy            |-> ZeroBits,
             expected_remaining |-> One,
             is_possible_answer |-> TRUE] >>
    ELSE truncate(sort_by([k \in DOMAIN valid_guesses(self) |->
                              analyse(self, valid_guesses(self)[k])],
                          Len(valid_guesses(self))), n)

\* WordleSolver::find_best_guesses
find_best_guesses(self, n) ==
    IF self.possible_answers = << >> THEN << >>
    ELSE IF Len(self.possible_answers) = 1
    THEN << [word               |-> self.possible_answers[1],
             entropy            |-> ZeroBits,
             expected_remaining |-> One,
             is_possible_answer |-> TRUE] >>
    ELSE IF Len(self.possible_answers) = 2
    THEN << [word               |-> self.possible_answers[1],
             entropy            |-> OneBit,
             expected_remaining |-> One,
             is_possible_answer |-> TRUE] >>
    ELSE LET valid    == valid_guesses(self)
             analyses == [k \in DOMAIN valid |-> analyse(self, valid[k])]
         IN truncate(sort_by(analyses, Len(analyses)), n)

\* WordleSolver::find_best_guess: the Option is a list of at most one analysis
find_best_guess(self) ==
    LET top == find_best_guesses(self, 1) IN
    IF top = << >> THEN << >> ELSE << Head(top) >>

\* WordleSolver::get_top_guesses
get_top_guesses(self, n) == find_best_guesses(self, n)

----------------------------------------------------------------------------
(* The codec calls under test *)

Letters(n) == { LowerCase[i] : i \in 1..n }

SmallWords(n) == [1..WORD_LENGTH -> Letters(n)]

\* the guess/target pairs of tests/feedback_tests.rs
GoldenPairs == { <<speed, creep>>, <<arose, creep>>, <<crane, charm>>,
                 <<geese, creep>>, <<sores, those>>, <<crane, crane>>,
                 <<quick, dream>> }

CalculateCalls(n) ==
    { [op |-> "calculate", guess |-> p[1], target |-> p[2], text |-> << >>, value |-> 0] :
        p \in (SmallWords(n) \X SmallWords(n - 1)) \cup GoldenPairs }

\* The spellings of a pattern text: one code per feedback value
Styles == { << "g", "y", "b" >>, << "2", "1", "0" >>, << "G", "Y", "B" >>,
            << "g", "y", "x" >>, << "G", "Y", "X" >>, << "g", "1", "0" >> }

ParseChars == { "g", "y", "b", "x", "2", "1", "0", "G", "Y", "B", "X",
                "z", "3", "a", " ", "é", "€" }

\* the texts of n characters in one spelling
StyledTexts(st, n) == [1..n -> { st[1], st[2], st[3] }]

\* the texts of n lowercase letter codes with one character replaced by any
ReplacedTexts(n) ==
    { [p[1] EXCEPT ![p[2]] = p[3]] :
        p \in [1..n -> { "g", "y", "b" }] \X (1..n) \X ParseChars }

ParseCall(t) ==
    [op |-> "parse", guess |-> << >>, target |-> << >>, text |-> t, value |-> 0]

RoundTripCalls ==
    { [op |-> "round_trip", guess |-> << >>, target |-> << >>, text |-> << >>, value |-> v] :
        v \in U8 }

Pending == [done |-> FALSE, some |-> FALSE, val |-> 0, overflow |-> FALSE]

NoCodecCall == [op |-> "none", guess |-> << >>, target |-> << >>, text |-> << >>, value |-> 0]

\* no solve is running
NoRun == [kind |-> "none", target |-> << >>, fresh |-> FALSE, rounds |-> 0, calls |-> 0]

\* no benchmark is running
NoBench == [kind |-> "none", entry |-> << >>, counts |-> << >>, total |-> 0]

\* the record of a completed call: its name, its arguments, what it returned
Call(op) ==
    [op |-> op, guess |-> << >>, pattern |-> 0, enabled |-> FALSE, n |-> 0,
     ret |-> << >>, pairs |-> << >>, run |-> NoRun,
     prev_count |-> 0, prev_constrained |-> FALSE, entry |-> << >>,
     prev_constraints |-> << >>]

\* the codec is exercised on its own, beside a solver over no words
CodecInit ==
    /\ \/ codec_in \in CalculateCalls(NumLetters)
       \/ \E st \in Styles : \E n \in 0..MaxTextLen :
             \E t \in StyledTexts(st, n) : codec_in = ParseCall(t)
       \/ \E n \in 1..MaxTextLen :
             \E t \in ReplacedTexts(n) : codec_in = ParseCall(t)
       \/ codec_in \in RoundTripCalls
    /\ codec_out = Pending
    /\ all_words = << >>
    /\ possible_answers = << >>
    /\ hard_mode = FALSE
    /\ constraints = HardModeConstraints_new
    /\ pc = "idle"
    /\ guesses = << >>
    /\ run = NoRun
    /\ applied = 0
    /\ last = Call("new")
    /\ bench = NoBench

\* FeedbackPattern::calculate(guess, target)
Calculate ==
    /\ codec_in.op = "calculate"
    /\ ~codec_out.done
    /\ codec_out' = [done |-> TRUE, some |-> TRUE,
                     val |-> calculate(codec_in.guess, codec_in.target),
                     overflow |-> FALSE]
    /\ UNCHANGED <<codec_in, solver_vars, harness_vars, bench_vars>>

\* FeedbackPattern::parse(text)
Parse ==
    /\ codec_in.op = "parse"
    /\ ~codec_out.done
    /\ codec_out' = [done |-> TRUE, some |-> parse(codec_in.text).some,
                     val |-> parse(codec_in.text).val, overflow |-> FALSE]
    /\ UNCHANGED <<codec_in, solver_vars, harness_vars, bench_vars>>

\* FeedbackPattern::new(FeedbackPattern(value).to_feedbacks())
RoundTrip ==
    /\ codec_in.op = "round_trip"
    /\ ~codec_out.done
    /\ codec_out' = [done |-> TRUE, some |-> TRUE,
                     val |-> new(to_feedbacks(codec_in.value)),
                     overflow |-> new_run(to_feedbacks(codec_in.value)).overflow]
    /\ UNCHANGED <<codec_in, solver_vars, harness_vars, bench_vars>>

CodecNext == Calculate \/ Parse \/ RoundTrip

SpecCodec == CodecInit /\ [][CodecNext]_vars

----------------------------------------------------------------------------
(* Properties of the codec, checked under SpecCodec *)

\* the positions of a guess that do not hold the target's letter
NonCorrect(guess, target) == { i \in 1..WORD_LENGTH : guess[i] # target[i] }

\* the feedback the game's rule gives position i
RuleFeedback(guess, target, i) ==
    LET nc      == NonCorrect(guess, target)
        earlier == Cardinality({ j \in nc : j < i /\ guess[j] = guess[i] })
        left    == Cardinality({ j \in nc : target[j] = guess[i] })
    IN IF guess[i] = target[i] THEN "Correct"
       ELSE IF earlier < left THEN "Present"
       ELSE "Absent"

GoldenVectors ==
    { << speed, creep, << "Absent", "Present", "Correct", "Correct", "Absent" >> >>,
      << arose, creep, << "Absent", "Correct", "Absent", "Absent", "Present" >> >>,
      << crane, charm, << "Correct", "Present", "Correct", "Absent", "Absent" >> >>,
      << geese, creep, << "Absent", "Present", "Correct", "Absent", "Absent" >> >>,
      << sores, those, << "Present", "Present", "Absent", "Present", "Absent" >> >> }

\* C1: calculate(guess, target) marks position i Correct exactly when
\* guess[i] = target[i]; a remaining position is Present exactly when fewer
\* earlier non-Correct guess positions hold its letter than non-Correct target
\* positions do, and Absent otherwise; the golden vectors of the tests hold.
C1_CalculateRule ==
    (codec_in.op = "calculate" /\ codec_out.done) =>
        LET fb == to_feedbacks(codec_out.val) IN
        /\ \A i \in 1..WORD_LENGTH :
              fb[i] = RuleFeedback(codec_in.guess, codec_in.target, i)
        /\ \A g \in GoldenVectors :
              (codec_in.guess = g[1] /\ codec_in.target = g[2]) => fb = g[3]

\* a repeated guess letter that is refused credit although the target holds
\* the letter at a non-Correct position
C1_Witness ==
    /\ codec_in.op = "calculate"
    /\ codec_out.done
    /\ \E i \in NonCorrect(codec_in.guess, codec_in.target) :
          /\ to_feedbacks(codec_out.val)[i] = "Absent"
          /\ \E j \in NonCorrect(codec_in.guess, codec_in.target) :
                codec_in.target[j] = codec_in.guess[i]

CorrectCodes == { "g", "G", "2" }
PresentCodes == { "y", "Y", "1" }
AbsentCodes  == { "b", "B", "x", "X", "0" }

CodeDigit(c) ==
    IF c \in CorrectCodes THEN 2 ELSE IF c \in PresentCodes THEN 1 ELSE 0

RECURSIVE Pow3(_)
Pow3(k) == IF k = 0 THEN 1 ELSE 3 * Pow3(k - 1)

RECURSIVE TextValue(_, _)
TextValue(text, i) ==
    IF i > Len(text) THEN 0
    ELSE CodeDigit(text[i]) * Pow3(i - 1) + TextValue(text, i + 1)

WellFormedText(text) ==
    /\ Len(text) = WORD_LENGTH
    /\ \A i \in DOMAIN text : text[i] \in CorrectCodes \cup PresentCodes \cup AbsentCodes

\* C9: parse(s) returns a pattern exactly when s has WORD_LENGTH characters,
\* each a recognized code (g/2, y/1, b/x/0, letters in either case), and then
\* the pattern is the base-3 encoding of the codes; otherwise it returns None.
C9_ParseExact ==
    (codec_in.op = "parse" /\ codec_out.done) =>
        /\ codec_out.some <=> WellFormedText(codec_in.text)
        /\ codec_out.some => codec_out.val = TextValue(codec_in.text, 1)
        /\ ~codec_out.some => codec_out.val = 0

\* a text of mixed spelling is accepted
C9_Witness ==
    /\ codec_in.op = "parse"
    /\ codec_out.done
    /\ codec_out.some
    /\ \E i, j \in DOMAIN codec_in.text :
          codec_in.text[i] = "G" /\ codec_in.text[j] = "X"

\* C10: for every v in 0..242, encoding the decoded feedbacks of v gives v
\* again, and no u8 overflows while encoding.
C10_RoundTrip ==
    (codec_in.op = "round_trip" /\ codec_out.done /\ codec_in.value < NUM_PATTERNS) =>
        /\ codec_out.val = codec_in.value
        /\ ~codec_out.overflow

\* the largest pattern, where the running values are largest
C10_Witness ==
    /\ codec_in.op = "round_trip"
    /\ codec_out.done
    /\ codec_in.value = ALL_CORRECT
    /\ codec_out.val = ALL_CORRECT

----------------------------------------------------------------------------
(* The solver under test *)

\* more direct apply_feedback calls than this are not made between two resets
MaxFeedbacks == 2
\* find_best_guesses is called with n in 0..MaxTopN
MaxTopN == 4
\* the rounds of solve_with_feedback
MaxRounds == 6

\* the guesses a caller passes: the words of the dictionary and one of none
GuessInputs == Range(all_words) \cup ForeignWords

\* the patterns a caller or an oracle passes for a guess: what some word of the
\* dictionary gives, and three that none may give
PatternInputs(guess) ==
    { feedback_pattern(guess, w) : w \in Range(all_words) } \cup { 0, ALL_CORRECT, 255 }

\* the solver as a record
Self ==
    [all_words        |-> all_words,
     possible_answers |-> possible_answers,
     hard_mode        |-> hard_mode,
     constraints      |-> constraints]

Becomes(self) ==
    /\ all_words' = self.all_words
    /\ possible_answers' = self.possible_answers
    /\ hard_mode' = self.hard_mode
    /\ constraints' = self.constraints

Fresh(self) ==
    /\ self.possible_answers = self.all_words
    /\ is_empty(self.constraints)

Init ==
    /\ \E words \in Dictionaries :
          /\ all_words = WordleSolver_new(words).all_words
          /\ possible_answers = WordleSolver_new(words).possible_answers
          /\ hard_mode = WordleSolver_new(words).hard_mode
          /\ constraints = WordleSolver_new(words).constraints
    /\ pc = "idle"
    /\ guesses = << >>
    /\ run = NoRun
    /\ applied = 0
    /\ last = Call("new")
    /\ bench = NoBench
    /\ codec_in = NoCodecCall
    /\ codec_out = Pending

\* solver.set_hard_mode(enabled)
SetHardMode(enabled) ==
    /\ pc = "idle"
    /\ Becomes(set_hard_mode(Self, enabled))
    /\ last' = [Call("set_hard_mode") EXCEPT !.enabled = enabled]
    /\ UNCHANGED <<pc, guesses, run, applied, codec_vars, bench_vars>>

\* solver.reset()
Reset ==
    /\ pc = "idle"
    /\ Becomes(reset(Self))
    /\ applied' = 0
    /\ last' = [Call("reset") EXCEPT
                    !.prev_count = Len(possible_answers),
                    !.prev_constrained = ~is_empty(constraints)]
    /\ UNCHANGED <<pc, guesses, run, codec_vars, bench_vars>>

\* solver.apply_feedback(guess, pattern)
ApplyFeedback(guess, pattern) ==
    /\ pc = "idle"
    /\ applied < MaxFeedbacks
    /\ Becomes(apply_feedback(Self, guess, pattern))
    /\ applied' = applied + 1
    /\ last' = [Call("apply_feedback") EXCEPT
                    !.guess = guess, !.pattern = pattern,
                    !.prev_count = Len(possible_answers),
                    !.prev_constraints = constraints]
    /\ UNCHANGED <<pc, guesses, run, codec_vars, bench_vars>>

\* solver.find_best_guesses(n), solver.get_top_guesses(n)
FindBestGuesses(n) ==
    /\ pc = "idle"
    /\ last' = [Call("find_best_guesses") EXCEPT
                    !.n = n, !.ret = get_top_guesses(Self, n)]
    /\ UNCHANGED <<solver_vars, pc, guesses, run, applied, codec_vars, bench_vars>>

\* solver.find_best_guess()
FindBestGuess ==
    /\ pc = "idle"
    /\ last' = [Call("find_best_guess") EXCEPT !.n = 1, !.ret = find_best_guess(Self)]
    /\ UNCHANGED <<solver_vars, pc, guesses, run, applied, codec_vars, bench_vars>>

\* solver.solve_with_feedback(get_feedback) is entered: guesses = Vec::new()
SolveWithFeedback ==
    /\ pc = "idle"
    /\ pc' = "solving"
    /\ guesses' = << >>
    /\ run' = [NoRun EXCEPT !.kind = "oracle", !.fresh = Fresh(Self)]
    /\ last' = Call("enter_solve")
    /\ UNCHANGED <<solver_vars, applied, codec_vars, bench_vars>>

\* solver.solve_for_target(target) is entered
SolveForTarget(target) ==
    /\ pc = "idle"
    /\ pc' = "solving"
    /\ guesses' = << >>
    /\ run' = [NoRun EXCEPT !.kind = "target", !.target = target, !.fresh = Fresh(Self)]
    /\ last' = Call("enter_solve")
    /\ UNCHANGED <<solver_vars, applied, codec_vars, bench_vars>>

\* a closure that answers all-Absent whatever the guess
target_feedback_absent(guess, target) == 0

\* the closure with its arguments exchanged
target_feedback_swapped(guess, target) == feedback_pattern(target, guess)

\* the closure solve_for_target passes as get_feedback
target_feedback(guess, target) == feedback_pattern(guess, target)

\* what get_feedback may answer for a guess: solve_for_target's closure gives
\* the target's feedback; any other oracle gives what some remaining answer
\* would give, or a pattern that none gives
OracleAnswers(guess) ==
    IF run.kind = "target" THEN { target_feedback(guess, run.target) }
    ELSE { feedback_pattern(guess, w) : w \in Range(possible_answers) }
         \cup { 0, ALL_CORRECT, 255 }

\* a round that applies the feedback before it looks for a win
after_round_applies_first(self, guess, pattern) == apply_feedback(self, guess, pattern)

\* lines 247-251: the solver after a round's pair is pushed: a win breaks out
\* of the loop before apply_feedback is reached
after_round(self, guess, pattern) ==
    IF is_win(pattern) THEN self ELSE apply_feedback(self, guess, pattern)

\* one round of the loop of solve_with_feedback in which ranking gives a guess
SolveRoundGuess ==
    /\ pc = "solving"
    /\ run.rounds < MaxRounds
    /\ find_best_guess(Self) # << >>
    /\ LET best == Head(find_best_guess(Self)) IN
       \E pattern \in OracleAnswers(best.word) :
          /\ guesses' = Append(guesses, << best.word, pattern >>)
          /\ run' = [run EXCEPT !.rounds = @ + 1, !.calls = @ + 1]
          /\ Becomes(after_round(Self, best.word, pattern))
          /\ IF is_win(pattern)
             THEN /\ pc' = "returning"
                  /\ last' = [Call("find_best_guess") EXCEPT
                                 !.n = 1, !.ret = find_best_guess(Self)]
                  /\ UNCHANGED applied
             ELSE /\ applied' = applied + 1
                  /\ last' = [Call("apply_feedback") EXCEPT
                                 !.guess = best.word, !.pattern = pattern,
                                 !.prev_count = Len(possible_answers),
                                 !.prev_constraints = constraints]
                  /\ pc' = IF run.rounds + 1 < MaxRounds THEN "solving" ELSE "returning"
    /\ UNCHANGED <<codec_vars, bench_vars>>

\* a round in which ranking gives no guess: break
SolveRoundStuck ==
    /\ pc = "solving"
    /\ run.rounds < MaxRounds
    /\ find_best_guess(Self) = << >>
    /\ pc' = "returning"
    /\ run' = [run EXCEPT !.rounds = @ + 1]
    /\ last' = [Call("find_best_guess") EXCEPT !.n = 1, !.ret = find_best_guess(Self)]
    /\ UNCHANGED <<solver_vars, guesses, applied, codec_vars, bench_vars>>

\* solve_with_feedback returns guesses
SolveReturn ==
    /\ pc = "returning"
    /\ pc' = "idle"
    /\ last' = [Call(IF run.kind = "target" THEN "solve_for_target"
                     ELSE "solve_with_feedback") EXCEPT !.pairs = guesses, !.run = run]
    /\ guesses' = << >>
    /\ run' = NoRun
    /\ UNCHANGED <<solver_vars, applied, codec_vars, bench_vars>>

Next ==
    \/ \E enabled \in BOOLEAN : SetHardMode(enabled)
    \/ Reset
    \/ \E guess \in GuessInputs : \E pattern \in PatternInputs(guess) :
          ApplyFeedback(guess, pattern)
    \/ \E n \in 0..MaxTopN : FindBestGuesses(n)
    \/ FindBestGuess
    \/ SolveWithFeedback
    \/ \E target \in GuessInputs : SolveForTarget(target)
    \/ SolveRoundGuess
    \/ SolveRoundStuck
    \/ SolveReturn

Spec == Init /\ [][Next]_vars

----------------------------------------------------------------------------
(* src/src/solver.rs: the benchmarks.  Each word of the list is a task; the  *)
(* tasks run in parallel, so they complete in any order.                     *)

\* The loop of solve_with_feedback with the closure of solve_for_target, from
\* round k on: the solver it leaves and the pairs it returns
RECURSIVE solve_loop(_, _, _, _)
solve_loop(self, target, pairs, k) ==
    IF k = MaxRounds \/ find_best_guess(self) = << >>
    THEN [solver |-> self, guesses |-> pairs]
    ELSE LET best    == Head(find_best_guess(self))
             pattern == target_feedback(best.word, target)
             pushed  == Append(pairs, << best.word, pattern >>)
         IN IF is_win(pattern)
            THEN [solver  |-> after_round(self, best.word, pattern),
                  guesses |-> pushed]
            ELSE solve_loop(after_round(self, best.word, pattern),
                            target, pushed, k + 1)

\* WordleSolver::solve_for_target as one call
solve_for_target(self, target) == solve_loop(self, target, << >>, 0)

\* a task that solves on the borrowed solver itself
benchmark_task_shared(self, target) ==
    [original |-> solve_for_target(self, target).solver,
     count    |-> Len(solve_for_target(self, target).guesses)]

\* The closure of lines 267-271 and 282-286: the solver it was given, as it
\* leaves it, and guesses.len()
benchmark_task(self, target) ==
    LET solver == self      \* self.clone()
    IN [original |-> self,
        count    |-> Len(solve_for_target(solver, target).guesses)]

\* a task that has not completed
NotRun == -1

RECURSIVE SumSeq(_, _)
SumSeq(counts, k) == IF k = 0 THEN 0 ELSE counts[k] + SumSeq(counts, k - 1)

RECURSIVE MaxSeq(_, _)
MaxSeq(counts, k) ==
    IF k = 0 THEN 0
    ELSE IF counts[k] > MaxSeq(counts, k - 1) THEN counts[k]
    ELSE MaxSeq(counts, k - 1)

\* total_guesses as f64 / self.all_words.len() as f64, kept as the two numbers
average(total, words) == << total, words >>

\* lines 289-300: the histogram of guess_counts, its empty entries left out
distribution(guess_counts) ==
    LET max_guesses == MaxSeq(guess_counts, Len(guess_counts))
        histogram   == [c \in 1..(max_guesses + 1) |->
                           << c - 1, Cardinality({ k \in DOMAIN guess_counts :
                                                     guess_counts[k] = c - 1 }) >>]
    IN SelectSeq(histogram, LAMBDA entry : entry[2] > 0)

\* solver.benchmark_average_guesses() / benchmark_guess_distribution() is entered
Benchmark(kind) ==
    /\ pc = "idle"
    /\ pc' = "benchmark"
    /\ bench' = [kind   |-> kind,
                 entry  |-> Self,
                 counts |-> [k \in DOMAIN all_words |-> NotRun],
                 total  |-> 0]
    /\ last' = Call("enter_benchmark")
    /\ UNCHANGED <<solver_vars, guesses, run, applied, codec_vars>>

\* the task of word k runs and completes
BenchmarkTask(k) ==
    /\ pc = "benchmark"
    /\ bench.counts[k] = NotRun
    /\ LET task == benchmark_task(Self, all_words[k]) IN
          /\ Becomes(task.original)
          /\ bench' = [bench EXCEPT !.counts[k] = task.count,
                                    !.total = @ + task.count]
    /\ UNCHANGED <<pc, guesses, run, applied, last, codec_vars>>

\* every task has completed: the benchmark returns
BenchmarkReturn ==
    /\ pc = "benchmark"
    /\ \A k \in DOMAIN bench.counts : bench.counts[k] # NotRun
    /\ pc' = "idle"
    /\ last' = [Call(bench.kind) EXCEPT
                    !.entry = bench.entry,
                    !.ret = IF bench.kind = "benchmark_average_guesses"
                            THEN average(bench.total, Len(all_words))
                            ELSE distribution(bench.counts)]
    /\ bench' = NoBench
    /\ UNCHANGED <<solver_vars, guesses, run, applied, codec_vars>>

BenchKinds == { "benchmark_average_guesses", "benchmark_guess_distribution" }

BenchNext ==
    \/ \E enabled \in BOOLEAN : SetHardMode(enabled)
    \/ Reset
    \/ \E guess \in GuessInputs : \E pattern \in PatternInputs(guess) :
          ApplyFeedback(guess, pattern)
    \/ \E kind \in BenchKinds : Benchmark(kind)
    \/ \E k \in DOMAIN all_words : BenchmarkTask(k)
    \/ BenchmarkReturn

\* the benchmarks are exercised on the word lists of the tests
BenchDictionaries == { TestWords, RepeatWords }

BenchInit ==
    /\ \E words \in BenchDictionaries :
          /\ all_words = WordleSolver_new(words).all_words
          /\ possible_answers = WordleSolver_new(words).possible_answers
          /\ hard_mode = WordleSolver_new(words).hard_mode
          /\ constraints = WordleSolver_new(words).constraints
    /\ pc = "idle"
    /\ guesses = << >>
    /\ run = NoRun
    /\ applied = 0
    /\ last = Call("new")
    /\ bench = NoBench
    /\ codec_in = NoCodecCall
    /\ codec_out = Pending

SpecBench == BenchInit /\ [][BenchNext]_vars

----------------------------------------------------------------------------
(* Calls with any guess text.  calculate reads bytes and indexes them without *)
(* a check; a panic aborts the process.                                       *)

\* a byte of a character that is not ASCII
NonAsciiByte == "0x80"

\* str::as_bytes: one byte for an ASCII character, several for another
RECURSIVE as_bytes(_)
as_bytes(s) ==
    IF s = << >> THEN << >>
    ELSE (IF len_utf8(Head(s)) = 1 THEN << Head(s) >>
          ELSE [k \in 1..len_utf8(Head(s)) |-> NonAsciiByte])
         \o as_bytes(Tail(s))

\* a debug build keeps debug_assert_eq! and checks arithmetic overflow; a
\* release build does neither
Builds == { "debug", "release" }

\* (byte - b'a') as usize is an index of [0u8; 26]: otherwise the subtraction
\* overflows (a panic in a debug build, a wrapped index of 159 or more in a
\* release build) or the index is 26 or more, and the indexing panics
IsLetterByte(b) == InSeq(LowerCase, b)

\* FeedbackPattern::calculate panics: the assertions of lines 80-81, the
\* indexing of lines 87, 90-91 and 97-98
calculate_panics(guess, target, build) ==
    LET guess_bytes  == as_bytes(guess)
        target_bytes == as_bytes(target)
    IN \/ /\ build = "debug"
          /\ Len(guess_bytes) # WORD_LENGTH \/ Len(target_bytes) # WORD_LENGTH
       \/ \E i \in 1..WORD_LENGTH :
             \/ i > Len(guess_bytes)
             \/ i > Len(target_bytes)
             \/ /\ guess_bytes[i] # target_bytes[i]
                /\ ~IsLetterByte(target_bytes[i]) \/ ~IsLetterByte(guess_bytes[i])

\* FeedbackPattern::calculate when it does not panic: only the first
\* WORD_LENGTH bytes are read
calculate_bytes(guess, target) ==
    calculate(SubSeq(as_bytes(guess), 1, WORD_LENGTH),
              SubSeq(as_bytes(target), 1, WORD_LENGTH))

\* HardModeConstraints::update panics: guess_chars[i] of lines 43 and 46-47
update_panics(guess, pattern) ==
    \E i \in 1..WORD_LENGTH :
        to_feedbacks(pattern)[i] # "Absent" /\ i > Len(guess)

\* WordleSolver::apply_feedback panics
apply_feedback_panics(self, guess, pattern, build) ==
    \/ self.hard_mode /\ update_panics(guess, pattern)
    \/ \E k \in DOMAIN self.possible_answers :
          calculate_panics(guess, self.possible_answers[k], build)

\* WordleSolver::apply_feedback on a text, when it does not panic
apply_feedback_text(self, guess, pattern) ==
    [self EXCEPT
        !.constraints = IF self.hard_mode THEN update(@, guess, pattern) ELSE @,
        !.possible_answers =
            SelectSeq(@, LAMBDA word : calculate_bytes(guess, word) = pattern)]

\* the guess texts a caller passes: a word, texts too short and too long, and
\* texts with a character outside a-z
GuessTexts ==
    { crane, << >>, << "c", "r" >>, << "c", "r", "a", "n", "e", "s" >>,
      << "c", "r", "4", "n", "e" >>, << "C", "R", "A", "N", "E" >>,
      << "c", "r", "a", "n", "é" >> }

\* the patterns passed with them: all Absent, Correct at the first position,
\* what slate gives crane, all Correct
TextPatterns == { 0, 2, calculate(crane, slate), ALL_CORRECT }

\* solver.apply_feedback(guess, pattern) with any text as guess
ApplyFeedbackText(guess, pattern, build) ==
    /\ pc = "idle"
    /\ applied < MaxFeedbacks
    /\ IF apply_feedback_panics(Self, guess, pattern, build)
       THEN /\ pc' = "aborted"
            /\ last' = [Call("apply_feedback") EXCEPT
                            !.guess = guess, !.pattern = pattern,
                            !.prev_count = Len(possible_answers),
                            !.prev_constraints = constraints]
            /\ UNCHANGED <<solver_vars, applied>>
       ELSE /\ Becomes(apply_feedback_text(Self, guess, pattern))
            /\ applied' = applied + 1
            /\ last' = [Call("apply_feedback") EXCEPT
                            !.guess = guess, !.pattern = pattern,
                            !.prev_count = Len(possible_answers),
                            !.prev_constraints = constraints]
            /\ UNCHANGED pc
    /\ UNCHANGED <<guesses, run, codec_vars, bench_vars>>

\* FeedbackPattern::calculate(guess, target) with any text as guess
CalculateText(guess, target, build) ==
    /\ pc = "idle"
    /\ pc' = IF calculate_panics(guess, target, build) THEN "aborted" ELSE "idle"
    /\ last' = [Call("calculate") EXCEPT
                    !.guess = guess,
                    !.pattern = IF calculate_panics(guess, target, build) THEN 0
                                ELSE calculate_bytes(guess, target)]
    /\ UNCHANGED <<solver_vars, guesses, run, applied, codec_vars, bench_vars>>

TextNext ==
    \/ \E enabled \in BOOLEAN : SetHardMode(enabled)
    \/ Reset
    \/ \E guess \in GuessTexts, pattern \in TextPatterns, build \in Builds :
          ApplyFeedbackText(guess, pattern, build)
    \/ \E guess \in GuessTexts, target \in Range(all_words), build \in Builds :
          CalculateText(guess, target, build)
    \/ \E n \in 0..MaxTopN : FindBestGuesses(n)
    \/ FindBestGuess

SpecText == Init /\ [][TextNext]_vars

----------------------------------------------------------------------------
(* Properties of the solver, checked under Spec *)

Ranked == last.op \in { "find_best_guesses", "find_best_guess" }

Solved == last.op \in { "solve_with_feedback", "solve_for_target" }

\* C2: apply_feedback(guess, pattern) leaves exactly the previous candidates w
\* with calculate(guess, w) = pattern, in their previous order, so the
\* candidate count never grows.
C2_ApplyFeedbackRetains ==
    [][ last'.op = "apply_feedback" =>
          /\ possible_answers' =
                SelectSeq(possible_answers,
                          LAMBDA w : calculate(last'.guess, w) = last'.pattern)
          /\ Len(possible_answers') <= Len(possible_answers)
          /\ last'.prev_count = Len(possible_answers) ]_vars

\* a feedback that removed some candidates and kept others
C2_Witness ==
    /\ last.op = "apply_feedback"
    /\ possible_answers # << >>
    /\ Len(possible_answers) < last.prev_count

\* a solve_for_target run from a fresh or reset solver for a dictionary word
FreshTargetRun ==
    /\ last.op = "solve_for_target"
    /\ last.run.fresh
    /\ InSeq(all_words, last.run.target)

LastPair(pairs) == pairs[Len(pairs)]

\* C3 as stated: every such run ends, within 6 pairs, with the all-Correct
\* pattern for the target.
C3_Original ==
    FreshTargetRun =>
        /\ last.pairs # << >>
        /\ Len(last.pairs) <= 6
        /\ LastPair(last.pairs)[2] = ALL_CORRECT
        /\ LastPair(last.pairs)[1] = last.run.target

\* C3 amended: every such run returns 1 to 6 pairs, each pattern the feedback
\* of its guess against the target; the last pattern is all-Correct exactly
\* when the last guess is the target, and it is whenever fewer than 6 pairs
\* are returned (a run of 6 pairs may end unsolved).
C3_SolveForTarget ==
    FreshTargetRun =>
        /\ last.pairs # << >>
        /\ Len(last.pairs) <= 6
        /\ \A k \in DOMAIN last.pairs :
              last.pairs[k][2] = calculate(last.pairs[k][1], last.run.target)
        /\ LastPair(last.pairs)[2] = ALL_CORRECT
              <=> LastPair(last.pairs)[1] = last.run.target
        /\ Len(last.pairs) < 6 => LastPair(last.pairs)[2] = ALL_CORRECT

\* a run that needed several rounds and found the target
C3_Witness ==
    /\ FreshTargetRun
    /\ Len(last.pairs) > 2
    /\ LastPair(last.pairs)[2] = ALL_CORRECT
    /\ LastPair(last.pairs)[1] = last.run.target

\* what C4 says of a list of pairs and the oracle calls made for it
RunShape(pairs, calls) ==
    /\ Len(pairs) <= 6
    /\ calls = Len(pairs)
    /\ \A k \in DOMAIN pairs : k < Len(pairs) => pairs[k][2] # ALL_CORRECT

\* C4: for every oracle and every starting state, solve_with_feedback returns
\* at most 6 pairs, calls the oracle once per pair, records no pair after a
\* winning one, and stops at once, without a call, when ranking gives no guess.
C4_SolveLoop ==
    [][ /\ RunShape(guesses', run'.calls)
        /\ Solved' => RunShape(last'.pairs, last'.run.calls)
        /\ (pc' = "solving" /\ guesses' # << >>) =>
              LastPair(guesses')[2] # ALL_CORRECT
        /\ (pc = "solving" /\ possible_answers = << >>) =>
              /\ pc' = "returning"
              /\ guesses' = guesses
              /\ run'.calls = run.calls
        /\ (pc = "returning") => (Solved' /\ last'.pairs = guesses) ]_vars

\* an oracle whose answers leave no candidate: the run stops early, unsolved
C4_Witness ==
    /\ last.op = "solve_with_feedback"
    /\ Len(last.pairs) \in 2..5
    /\ LastPair(last.pairs)[2] # ALL_CORRECT
    /\ possible_answers = << >>

\* C5: a ranking is ordered by non-increasing entropy, and of two adjacent
\* entries of equal entropy a possible answer never follows one that is not.
C5_RankingSorted ==
    Ranked =>
        \A k \in 1..(Len(last.ret) - 1) :
            /\ partial_cmp(last.ret[k].entropy, last.ret[k + 1].entropy) # "Less"
            /\ partial_cmp(last.ret[k].entropy, last.ret[k + 1].entropy) = "Equal" =>
                  ~(~last.ret[k].is_possible_answer
                    /\ last.ret[k + 1].is_possible_answer)

\* a tie in which the possible answer was moved in front of a word that
\* precedes it in the dictionary
C5_Witness ==
    /\ last.op = "find_best_guesses"
    /\ \E k \in 1..(Len(last.ret) - 1) :
          /\ partial_cmp(last.ret[k].entropy, last.ret[k + 1].entropy) = "Equal"
          /\ last.ret[k].is_possible_answer
          /\ ~last.ret[k + 1].is_possible_answer
          /\ IndexIn(all_words, last.ret[k + 1].word)
                < IndexIn(all_words, last.ret[k].word)

\* C6: in hard mode, after one or more apply_feedback calls, every ranked
\* word satisfies is_valid of the accumulated constraints.
C6_HardModeRanking ==
    (Ranked /\ hard_mode /\ applied >= 1) =>
        \A k \in DOMAIN last.ret : is_valid(constraints, last.ret[k].word)

\* a ranking of three or more candidates from which the constraints exclude
\* a word of the dictionary
C6_Witness ==
    /\ last.op = "find_best_guesses"
    /\ hard_mode
    /\ applied >= 1
    /\ Len(possible_answers) >= 3
    /\ Len(last.ret) >= 2
    /\ \E w \in Range(all_words) : ~is_valid(constraints, w)

\* C7: find_best_guess returns nothing, and get_top_guesses(n) with n >= 1
\* the empty list, exactly when no candidate is left.
C7_EmptyRanking ==
    (Ranked /\ last.n >= 1) => (last.ret = << >> <=> possible_answers = << >>)

\* no candidate is left after an inconsistent feedback, and nothing is returned
C7_Witness ==
    /\ last.op = "find_best_guess"
    /\ last.ret = << >>
    /\ possible_answers = << >>
    /\ applied >= 1

\* C8: reset makes the candidates the full word list, as at construction,
\* and leaves no fixed position and no presence letter.
C8_Reset ==
    last.op = "reset" =>
        /\ all_words \in Dictionaries
        /\ possible_answers = all_words
        /\ \A i \in 1..WORD_LENGTH : constraints.required_positions[i] = NoLetter
        /\ constraints.required_letters = << >>

\* a reset of a solver that had lost candidates and held constraints
C8_Witness ==
    /\ last.op = "reset"
    /\ last.prev_count < Len(all_words)
    /\ last.prev_constrained

\* k bits of entropy, k in 0..1
Bits(k) == [n |-> Pow(2, k), w |-> 1]

\* C11: with exactly 1 or exactly 2 candidates left, find_best_guess returns
\* one of the candidates, flagged as a possible answer, with expected-remaining
\* 1 and an entropy of 0 bits for one candidate and exactly 1 bit for two.
C11_FastPaths ==
    (last.op = "find_best_guess" /\ Len(possible_answers) \in { 1, 2 }) =>
        /\ Len(last.ret) = 1
        /\ InSeq(possible_answers, last.ret[1].word)
        /\ last.ret[1].is_possible_answer
        /\ last.ret[1].expected_remaining.w = 1
        /\ partial_cmp(last.ret[1].entropy, Bits(Len(possible_answers) - 1)) = "Equal"

\* two candidates are left after a feedback, in hard mode, and one is returned
C11_Witness ==
    /\ last.op = "find_best_guess"
    /\ Len(possible_answers) = 2
    /\ applied >= 1
    /\ hard_mode
    /\ last.ret # << >>

\* a is b with some elements left out
RECURSIVE IsSubSeq(_, _)
IsSubSeq(a, b) ==
    IF a = << >> THEN TRUE
    ELSE IF b = << >> THEN FALSE
    ELSE IF Head(a) = Head(b) THEN IsSubSeq(Tail(a), Tail(b))
    ELSE IsSubSeq(a, Tail(b))

\* C12: the full word list stays the list given at construction and the
\* candidates are a sub-sequence of it; the candidates change only by
\* apply_feedback, which only removes words, and by reset.
C12_WordListFixed ==
    /\ all_words \in Dictionaries
    /\ IsSubSeq(possible_answers, all_words)
    /\ [][ /\ all_words' = all_words
           /\ IsSubSeq(possible_answers', all_words')
           /\ possible_answers' # possible_answers =>
                 /\ last'.op \in { "apply_feedback", "reset" }
                 /\ last'.op = "apply_feedback" =>
                       IsSubSeq(possible_answers', possible_answers) ]_vars

\* a second feedback has left candidates from the middle of the word list
C12_Witness ==
    /\ last.op = "apply_feedback"
    /\ applied = 2
    /\ Len(possible_answers) \in 2..(Len(all_words) - 2)
    /\ possible_answers[1] # all_words[1]
    /\ last.prev_count > Len(possible_answers)

\* a solve that has returned after a winning round
WonRun ==
    /\ Solved
    /\ last.pairs # << >>
    /\ LastPair(last.pairs)[2] = ALL_CORRECT

C17_Original ==
    [][ last'.op # "reset" =>
          /\ \A i \in 1..WORD_LENGTH :
                constraints.required_positions[i] # NoLetter =>
                    constraints'.required_positions[i] =
                        constraints.required_positions[i]
          /\ \A k \in DOMAIN constraints.required_letters :
                InSeq(constraints'.required_letters,
                      constraints.required_letters[k]) ]_vars

\* C17 amended: in a step that is not a reset, every letter of the presence
\* set is still recorded afterwards and every fixed position is still fixed;
\* its letter is the same unless the step applies a feedback that is Correct
\* at that position, which then holds that guess's letter.
C17_NothingRetracted ==
    [][ last'.op # "reset" =>
          /\ \A i \in 1..WORD_LENGTH :
                constraints.required_positions[i] # NoLetter =>
                    /\ constraints'.required_positions[i] # NoLetter
                    /\ constraints'.required_positions[i] #
                            constraints.required_positions[i] =>
                          /\ last'.op = "apply_feedback"
                          /\ to_feedbacks(last'.pattern)[i] = "Correct"
                          /\ constraints'.required_positions[i] = last'.guess[i]
          /\ \A k \in DOMAIN constraints.required_letters :
                constraints'.required_letters[k] =
                    constraints.required_letters[k] ]_vars

\* a feedback was applied over recorded constraints: a fixed position got
\* another letter, and the presence set was kept
C17_Witness ==
    /\ last.op = "apply_feedback"
    /\ hard_mode
    /\ last.prev_constraints # << >>
    /\ last.prev_constraints.required_letters # << >>
    /\ \A k \in DOMAIN last.prev_constraints.required_letters :
          constraints.required_letters[k] =
              last.prev_constraints.required_letters[k]
    /\ \E i \in 1..WORD_LENGTH :
          /\ last.prev_constraints.required_positions[i] # NoLetter
          /\ constraints.required_positions[i] #
                last.prev_constraints.required_positions[i]

\* C18: find_best_guesses(n) and get_top_guesses(n) return at most n analyses,
\* for every n >= 0 and every solver state.
C18_AtMostN ==
    last.op = "find_best_guesses" => Len(last.ret) <= last.n

\* C19: whatever sequence of apply_feedback, set_hard_mode and reset has run,
\* every candidate satisfies is_valid of the current constraints; so the
\* eligible guesses hold every candidate and, when a candidate is left, in
\* hard mode they are not empty.
C19_CandidatesSatisfyConstraints ==
    /\ \A k \in DOMAIN possible_answers :
          /\ is_valid(constraints, possible_answers[k])
          /\ InSeq(valid_guesses(Self), possible_answers[k])
    /\ (hard_mode /\ possible_answers # << >>) => valid_guesses(Self) # << >>

\* hard mode is on after two feedbacks, constraints are recorded, a candidate
\* is left and the constraints rule out some words but not only the
\* candidates' complement
C19_Witness ==
    /\ hard_mode
    /\ applied = MaxFeedbacks
    /\ ~is_empty(constraints)
    /\ constraints.required_letters # << >>
    /\ \E i \in 1..WORD_LENGTH : constraints.required_positions[i] # NoLetter
    /\ possible_answers # << >>
    /\ Len(possible_answers) < Len(valid_guesses(Self))
    /\ Len(valid_guesses(Self)) < Len(all_words)

\* C20: in a solve_for_target(t) run, while t is a candidate a round finds a
\* guess (the run is not stuck on an empty candidate set) and t is still a
\* candidate after the round; so a run started with t among the candidates
\* keeps it after every round.
C20_TargetStaysCandidate ==
    [][ (pc = "solving" /\ run.kind = "target"
            /\ InSeq(possible_answers, run.target)) =>
          /\ find_best_guess(Self) # << >>
          /\ guesses' # guesses
          /\ InSeq(possible_answers', run.target) ]_vars

\* a run for a target in hard mode, two rounds done without a win, the
\* candidates narrowed and the target among them
C20_Witness ==
    /\ pc = "solving"
    /\ run.kind = "target"
    /\ run.rounds >= 2
    /\ hard_mode
    /\ InSeq(possible_answers, run.target)
    /\ Len(possible_answers) < Len(all_words)

----------------------------------------------------------------------------
(* Properties of the benchmarks, checked under SpecBench *)

Benchmarked == last.op \in BenchKinds

\* what a benchmark of the given kind returns for the tasks' counts
BenchResult(kind, counts) ==
    IF kind = "benchmark_average_guesses"
    THEN average(SumSeq(counts, Len(counts)), Len(counts))
    ELSE distribution(counts)

\* the length of the run for each word of the list, each run from solver
SolveCounts(solver) ==
    [k \in DOMAIN solver.all_words |->
        Len(solve_for_target(solver, solver.all_words[k]).guesses)]

\* C13: a benchmark called on a solver to which feedback was applied returns
\* what it returns on a freshly constructed solver over the same word list.
C13_BenchmarkFromInitialState ==
    (Benchmarked /\ ~last.entry.hard_mode) =>
        last.ret = BenchResult(last.op, SolveCounts(WordleSolver_new(all_words)))

\* C14: while a benchmark runs the borrowed solver does not change, and what
\* it returns is decided by the solver it was called on alone, whatever the
\* order in which the tasks complete: the total is the sum of the per-word
\* run lengths, and the histogram counts every word once.
C14_BenchmarkTasksIndependent ==
    [][ /\ pc = "benchmark" => Self' = Self
        /\ Benchmarked' =>
              /\ Self' = last'.entry
              /\ last'.ret = BenchResult(last'.op, SolveCounts(last'.entry))
              /\ last'.op = "benchmark_guess_distribution" =>
                    SumSeq([k \in DOMAIN last'.ret |-> last'.ret[k][2]],
                           Len(last'.ret)) = Len(all_words)
              /\ last'.op = "benchmark_average_guesses" =>
                    last'.ret[2] = Len(all_words) ]_vars

\* on a solver that had lost candidates, the task of the last word and a
\* task that needed several rounds have completed before the task of the first
C14_Witness ==
    /\ pc = "benchmark"
    /\ bench.counts[1] = NotRun
    /\ bench.counts[Len(all_words)] # NotRun
    /\ \E k \in DOMAIN bench.counts : bench.counts[k] > 1
    /\ Len(possible_answers) \in 1..(Len(all_words) - 1)

----------------------------------------------------------------------------
(* Properties of the calls with any guess text, checked under SpecText *)

\* C15: no operation aborts the process, whatever text is passed as guess:
\* apply_feedback, calculate and ranking complete and report failures as values.
C15_NoAbort == pc # "aborted"

====
